---- MODULE Spec2Model ----
(***************************************************************************)
(* luppa: CorruptionNetworkAnalyzer.                                       *)
(*                                                                         *)
(* The repository holds two copies of the class: src/app.py (the first     *)
(* version, thresholds written in the code) and src/main.py (the version   *)
(* that reads src/config.py).  The variable `module` says which of the two *)
(* is running; every operation is translated from both.                    *)
(*                                                                         *)
(* The graph is a networkx.Graph: a simple undirected graph whose nodes    *)
(* and adjacency lists keep insertion order and whose add_node / add_edge  *)
(* update the attribute dict of a node / edge that already exists.         *)
(***************************************************************************)
EXTENDS Integers, Sequences, FiniteSets, TLC

VARIABLES
    module,           \* "app" | "main": which file's class is instantiated
    graph,            \* self.graph
    entities,         \* self.entities: id -> entity dict
    relationships,    \* self.relationships: list of relationship dicts
    analysis_result,  \* argument of the last _update_graph call
    empresa_degrees,  \* local of detect_suspicious_patterns: <<node, degree>> list
    outcome,          \* last operation, whether it raised, and what it returned
    items             \* entities and relationships submitted so far (bounds the runs)

vars == <<module, graph, entities, relationships, analysis_result,
          empresa_degrees, outcome, items>>

----------------------------------------------------------------------------
(* Bounds of the model *)

MaxItems == 4          \* Spec: items submitted in one run
MaxCycleItems == 6     \* SpecCycles: items submitted in one run
MaxCompanies == 5      \* SpecDegrees: companies in the degree table
MaxDegree == 10        \* SpecDegrees: largest degree in the table
MaxChordItems == 9     \* SpecChord: items submitted in one run
MaxBaseDegree == 4      \* SpecOutlier: the degree the companies share
MaxOutlierDegree == 25  \* SpecOutlier: the degree of the company that differs

----------------------------------------------------------------------------
(* Python dicts as functions *)

EmptyDict == [k \in {} |-> k]

\* dict.update(): keys of `new` overwrite, the other keys of `old` stay
DictUpdate(old, new) ==
    [k \in (DOMAIN old) \cup (DOMAIN new) |->
        IF k \in DOMAIN new THEN new[k] ELSE old[k]]

DictSet(d, key, value) ==
    [k \in (DOMAIN d) \cup {key} |-> IF k = key THEN value ELSE d[k]]

SeqToSet(s) == {s[i] : i \in 1..Len(s)}

----------------------------------------------------------------------------
(* src/config.py *)

ENTITY_TYPES ==
    [t \in {"funcionario", "empresa", "beneficiario", "ppe"} |->
        CASE t = "funcionario"  -> [color |-> "#FF6B6B", icon |-> "user"]
          [] t = "empresa"      -> [color |-> "#4ECDC4", icon |-> "building"]
          [] t = "beneficiario" -> [color |-> "#45B7D1", icon |-> "user-check"]
          [] t = "ppe"          -> [color |-> "#96CEB4", icon |-> "user-star"]]

RELATIONSHIP_TYPES ==
    [t \in {"familiar", "comercial", "politica", "beneficio"} |->
        CASE t = "familiar"  -> [risk_factor |-> "0.8", color |-> "#FF0000"]
          [] t = "comercial" -> [risk_factor |-> "0.6", color |-> "#00FF00"]
          [] t = "politica"  -> [risk_factor |-> "0.7", color |-> "#0000FF"]
          [] t = "beneficio" -> [risk_factor |-> "0.5", color |-> "#FFFF00"]]

min_cycle_length == 3
max_degree_std == 2

\* The value a raising lookup yields in the model
KeyError == [raised |-> "KeyError"]

\* table.get(key, table["otro"]): Python evaluates the default argument
\* table["otro"] before it calls get, so the lookup of "otro" happens for
\* every key, known or not.
DictGetOtro(table, key) ==
    IF "otro" \notin DOMAIN table
    THEN KeyError
    ELSE IF key \in DOMAIN table THEN table[key] ELSE table["otro"]

get_entity_config(entity_type) == DictGetOtro(ENTITY_TYPES, entity_type)

get_relationship_config(relationship_type) ==
    DictGetOtro(RELATIONSHIP_TYPES, relationship_type)

----------------------------------------------------------------------------
(* networkx.Graph *)

\* nodes: node ids in insertion order; node: id -> attribute dict;
\* adj: id -> neighbours in insertion order; edge: {u, v} -> attribute dict
EmptyGraph ==
    [nodes |-> <<>>, node |-> EmptyDict, adj |-> EmptyDict, edge |-> EmptyDict]

add_node(G, n, attr) ==
    IF n \in DOMAIN G.node
    THEN [G EXCEPT !.node[n] = DictUpdate(@, attr)]
    ELSE [nodes |-> Append(G.nodes, n),
          node  |-> DictSet(G.node, n, attr),
          adj   |-> DictSet(G.adj, n, <<>>),
          edge  |-> G.edge]

AdjAdd(nbrs, v) == IF v \in SeqToSet(nbrs) THEN nbrs ELSE Append(nbrs, v)

add_edge(G, u, v, attr) ==
    LET G1 == IF u \in DOMAIN G.node THEN G ELSE add_node(G, u, EmptyDict)
        G2 == IF v \in DOMAIN G1.node THEN G1 ELSE add_node(G1, v, EmptyDict)
        datadict == DictUpdate(IF {u, v} \in DOMAIN G2.edge
                               THEN G2.edge[{u, v}] ELSE EmptyDict, attr)
        adjU == DictSet(G2.adj, u, AdjAdd(G2.adj[u], v))
        adjV == DictSet(adjU, v, AdjAdd(adjU[v], u))
    IN  [nodes |-> G2.nodes,
         node  |-> G2.node,
         adj   |-> adjV,
         edge  |-> DictSet(G2.edge, {u, v}, datadict)]

\* Graph.degree: a self-loop counts twice
degree(G, n) ==
    Len(G.adj[n]) + (IF n \in SeqToSet(G.adj[n]) THEN 1 ELSE 0)

----------------------------------------------------------------------------
(* _update_graph *)

\* f(**attributes, k1=..., k2=...) raises TypeError (before f runs) when
\* attributes already has one of the explicit keywords
KeywordClash(attributes, keywords) == (DOMAIN attributes) \cap keywords # {}

NodeKeywords(m) ==
    IF m = "main" THEN {"node_type", "name", "color", "icon"}
                  ELSE {"node_type", "name"}

EdgeKeywords(m) ==
    IF m = "main" THEN {"relationship_type", "color", "risk_factor"}
                  ELSE {"relationship_type"}

NodeAttributes(m, entity, entity_config) ==
    LET base == DictUpdate(entity.attributes,
                           [node_type |-> entity.type, name |-> entity.name])
    IN  IF m = "main"
        THEN DictUpdate(base, [color |-> entity_config.color,
                               icon |-> entity_config.icon])
        ELSE base

EdgeAttributes(m, rel, rel_config) ==
    LET base == DictUpdate(rel.attributes, [relationship_type |-> rel.type])
    IN  IF m = "main"
        THEN DictUpdate(base, [color |-> rel_config.color,
                               risk_factor |-> rel_config.risk_factor])
        ELSE base

\* State threaded through the two loops of _update_graph
\* st = [graph, entities, relationships, raised]

\* One iteration of "for entity in analysis_result['entities']"
AddEntity(m, st, entity) ==
    LET entity_config == IF m = "main" THEN get_entity_config(entity.type)
                                       ELSE EmptyDict
    IN  IF entity_config = KeyError \/ KeywordClash(entity.attributes, NodeKeywords(m))
        THEN [st EXCEPT !.raised = TRUE]
        ELSE [st EXCEPT
                !.graph = add_node(st.graph, entity.id,
                                   NodeAttributes(m, entity, entity_config)),
                !.entities = DictSet(st.entities, entity.id, entity)]

\* One iteration of "for rel in analysis_result['relationships']"
AddRelationship(m, st, rel) ==
    LET rel_config == IF m = "main" THEN get_relationship_config(rel.type)
                                    ELSE EmptyDict
    IN  IF rel_config = KeyError \/ KeywordClash(rel.attributes, EdgeKeywords(m))
        THEN [st EXCEPT !.raised = TRUE]
        ELSE [st EXCEPT
                !.graph = add_edge(st.graph, rel.source, rel.target,
                                   EdgeAttributes(m, rel, rel_config)),
                !.relationships = Append(st.relationships, rel)]

RECURSIVE EntityLoop(_, _, _, _)
EntityLoop(m, st, list, i) ==
    IF i > Len(list) \/ st.raised THEN st
    ELSE EntityLoop(m, AddEntity(m, st, list[i]), list, i + 1)

RECURSIVE RelationshipLoop(_, _, _, _)
RelationshipLoop(m, st, list, i) ==
    IF i > Len(list) \/ st.raised THEN st
    ELSE RelationshipLoop(m, AddRelationship(m, st, list[i]), list, i + 1)

\* The whole method: what it leaves in self and whether it raised
UpdateGraphResult(m, G, ents, rels, batch) ==
    LET st0 == [graph |-> G, entities |-> ents, relationships |-> rels,
                raised |-> FALSE]
        st1 == EntityLoop(m, st0, batch.entities, 1)
    IN  RelationshipLoop(m, st1, batch.relationships, 1)

----------------------------------------------------------------------------
(* networkx.cycle_basis(G) *)

\* w = [stack, pred, used, cycles]: the locals of one component's walk

\* "while p not in pn: cycle.append(p); p = pred[p]" then "cycle.append(p)"
RECURSIVE ClimbPred(_, _, _, _)
ClimbPred(pred, pn, cycle, p) ==
    IF p \in pn THEN Append(cycle, p)
    ELSE ClimbPred(pred, pn, Append(cycle, p), pred[p])

\* The body of "for nbr in G[z]" for one neighbour
VisitNbr(w, z, zused, nbr) ==
    IF nbr \notin DOMAIN w.used
    THEN [w EXCEPT !.pred = DictSet(@, nbr, z),
                   !.stack = Append(@, nbr),
                   !.used = DictSet(@, nbr, {z})]
    ELSE IF nbr = z
    THEN [w EXCEPT !.cycles = Append(@, <<z>>)]
    ELSE IF nbr \notin zused
    THEN [w EXCEPT
            !.cycles = Append(@, ClimbPred(w.pred, w.used[nbr], <<nbr, z>>, w.pred[z])),
            !.used[nbr] = @ \cup {z}]
    ELSE w

RECURSIVE NbrLoop(_, _, _, _, _)
NbrLoop(w, z, zused, nbrs, i) ==
    IF i > Len(nbrs) THEN w
    ELSE NbrLoop(VisitNbr(w, z, zused, nbrs[i]), z, zused, nbrs, i + 1)

\* "while stack: z = stack.pop(); zused = used[z]; for nbr in G[z]: ..."
RECURSIVE WalkTree(_, _)
WalkTree(G, w) ==
    IF w.stack = <<>> THEN w
    ELSE LET z == w.stack[Len(w.stack)]
             popped == [w EXCEPT !.stack = SubSeq(@, 1, Len(@) - 1)]
         IN  WalkTree(G, NbrLoop(popped, z, w.used[z], G.adj[z], 1))

\* The root of the next component.  networkx >= 3.1 takes the node inserted
\* last (dict.popitem), earlier releases take set.pop(), whose choice depends
\* on the hashes of the ids; the repository pins no release.  `order` lists
\* the nodes in the order the roots are tried, so every choice is covered.
PickRoot(gnodes, order) ==
    order[CHOOSE i \in 1..Len(order) :
            /\ order[i] \in gnodes
            /\ \A j \in 1..(i - 1) : order[j] \notin gnodes]

RECURSIVE ComponentLoop(_, _, _, _)
ComponentLoop(G, gnodes, order, cycles) ==
    IF gnodes = {} THEN cycles
    ELSE LET root == PickRoot(gnodes, order)
             w == WalkTree(G, [stack |-> <<root>>,
                               pred |-> DictSet(EmptyDict, root, root),
                               used |-> DictSet(EmptyDict, root, {}),
                               cycles |-> cycles])
         IN  ComponentLoop(G, gnodes \ DOMAIN w.pred, order, w.cycles)

cycle_basis(G, order) == ComponentLoop(G, SeqToSet(G.nodes), order, <<>>)

\* The orders in which cycle_basis may pick its roots
RootOrders(G) ==
    {o \in [1..Len(G.nodes) -> SeqToSet(G.nodes)] :
        \A i, j \in 1..Len(G.nodes) : i # j => o[i] # o[j]}

----------------------------------------------------------------------------
(* detect_suspicious_patterns *)

\* Mutant: the multiplier of the deviation taken as 1
DegreeStdMultiplierOne(m) == 1

MinCycleLength(m) == IF m = "main" THEN min_cycle_length ELSE 3

DegreeStdMultiplier(m) == IF m = "main" THEN max_degree_std ELSE 2

\* Mutant: "len(cycle) > 3" for "len(cycle) >= 3"
CycleIsSuspiciousLongerThan(m, ents, cycle) ==
    /\ Len(cycle) > MinCycleLength(m)
    /\ \E i \in 1..Len(cycle) : ents[cycle[i]].type = "funcionario"
    /\ \E i \in 1..Len(cycle) : ents[cycle[i]].type = "empresa"

\* Mutant: "or" for "and" in the test of the types
CycleIsSuspiciousEither(m, ents, cycle) ==
    /\ Len(cycle) >= MinCycleLength(m)
    /\ \/ \E i \in 1..Len(cycle) : ents[cycle[i]].type = "funcionario"
       \/ \E i \in 1..Len(cycle) : ents[cycle[i]].type = "empresa"

\* "if 'funcionario' in cycle_types and 'empresa' in cycle_types"
CycleIsSuspicious(m, ents, cycle) ==
    /\ Len(cycle) >= MinCycleLength(m)
    /\ \E i \in 1..Len(cycle) : ents[cycle[i]].type = "funcionario"
    /\ \E i \in 1..Len(cycle) : ents[cycle[i]].type = "empresa"

\* self.entities[node] raises KeyError for a node without an entity record
CycleLookupRaises(m, ents, cycle) ==
    /\ Len(cycle) >= MinCycleLength(m)
    /\ \E i \in 1..Len(cycle) : cycle[i] \notin DOMAIN ents

RECURSIVE CyclePatterns(_, _, _, _)
CyclePatterns(m, ents, cycles, i) ==
    IF i > Len(cycles) THEN <<>>
    ELSE (IF CycleIsSuspicious(m, ents, cycles[i])
          THEN <<[type |-> "ciclo_sospechoso", nodes |-> cycles[i]]>>
          ELSE <<>>) \o CyclePatterns(m, ents, cycles, i + 1)

\* {node: degree for node, degree in self.graph.degree()
\*                if self.entities[node]['type'] == 'empresa'}
RECURSIVE EmpresaDegrees(_, _, _)
EmpresaDegrees(G, ents, i) ==
    IF i > Len(G.nodes) THEN <<>>
    ELSE (IF ents[G.nodes[i]].type = "empresa"
          THEN << <<G.nodes[i], degree(G, G.nodes[i])>> >>
          ELSE <<>>) \o EmpresaDegrees(G, ents, i + 1)

RECURSIVE SumDegrees(_, _)
SumDegrees(degs, i) ==
    IF i > Len(degs) THEN 0 ELSE degs[i][2] + SumDegrees(degs, i + 1)

RECURSIVE SumSquares(_, _)
SumSquares(degs, i) ==
    IF i > Len(degs) THEN 0 ELSE degs[i][2] * degs[i][2] + SumSquares(degs, i + 1)

----------------------------------------------------------------------------
(* The doubles of np.mean, np.std and of the comparison with the threshold  *)

\* Natural numbers of any size, as the sequence of their digits in base
\* 2^DigitBits, least significant first, without leading zero digit (0 is
\* <<>>): the 53-bit significands and their products do not fit an integer
\* of the model checker.  The operations are functions, which the model
\* checker applies to values, and look the carries ahead instead of rippling
\* them: both keep the evaluation shallow.
DigitBits == 14
Base == 2^DigitBits
Big == Seq(Nat)

Digit(x, i) == IF 1 <= i /\ i <= Len(x) THEN x[i] ELSE 0

Trim[x \in Big] ==
    SubSeq(x, 1, Cardinality({i \in 1..Len(x) : \E j \in i..Len(x) : x[j] # 0}))

\* 0 <= k < Base * Base
FromInt[k \in Nat] == Trim[<<k % Base, k \div Base>>]

\* x * Base^a
ShiftDigits[x \in Big, a \in Nat] == [i \in 1..a |-> 0] \o x

BigAdd[x \in Big, y \in Big] ==
    LET n == IF Len(x) > Len(y) THEN Len(x) ELSE Len(y)
        sum == [i \in 1..(n + 1) |-> Digit(x, i) + Digit(y, i)]
        carry == [i \in 1..(n + 1) |->
                    IF \E j \in 1..(i - 1) :
                          /\ sum[j] >= Base
                          /\ \A k \in (j + 1)..(i - 1) : sum[k] = Base - 1
                    THEN 1 ELSE 0]
    IN  Trim[[i \in 1..(n + 1) |-> (sum[i] + carry[i]) % Base]]

\* x - y for x >= y
BigSub[x \in Big, y \in Big] ==
    LET diff == [i \in 1..Len(x) |-> x[i] - Digit(y, i)]
        borrow == [i \in 1..Len(x) |->
                     IF \E j \in 1..(i - 1) :
                           /\ diff[j] < 0
                           /\ \A k \in (j + 1)..(i - 1) : diff[k] = 0
                     THEN 1 ELSE 0]
    IN  Trim[[i \in 1..Len(x) |-> (diff[i] - borrow[i] + Base) % Base]]

BigLess[x \in Big, y \in Big] ==
    \/ Len(x) < Len(y)
    \/ /\ Len(x) = Len(y)
       /\ \E i \in 1..Len(x) :
            x[i] < y[i] /\ \A j \in (i + 1)..Len(x) : x[j] = y[j]

\* x * c for a digit c
MulDigit[x \in Big, c \in Nat] ==
    BigAdd[[i \in 1..Len(x) |-> (x[i] * c) % Base],
           ShiftDigits[[i \in 1..Len(x) |-> (x[i] * c) \div Base], 1]]

\* The sum of the products x[i] * y[j] with i + j = k + 1 (x of at most 7 digits)
RECURSIVE ColumnSum(_, _, _, _)
ColumnSum(x, y, k, i) ==
    IF i > Len(x) THEN 0
    ELSE x[i] * Digit(y, k + 1 - i) + ColumnSum(x, y, k, i + 1)

BigMul[x \in Big, y \in Big] ==
    LET n == Len(x) + Len(y)
        column == [k \in 1..n |-> ColumnSum(x, y, k, 1)]
    IN  BigAdd[BigAdd[[k \in 1..n |-> column[k] % Base],
                      ShiftDigits[[k \in 1..n |-> (column[k] \div Base) % Base], 1]],
               ShiftDigits[[k \in 1..n |-> column[k] \div (Base * Base)], 2]]

\* Quotient q and remainder r of x by c, 0 < c < Base, from the most
\* significant digit down
RECURSIVE DivSmallFrom(_, _, _, _)
DivSmallFrom(x, c, i, rem) ==
    IF i = 0 THEN [q |-> <<>>, r |-> rem]
    ELSE LET t == rem * Base + x[i]
             rest == DivSmallFrom(x, c, i - 1, t % c)
         IN  [q |-> Append(rest.q, t \div c), r |-> rest.r]

DivSmall[x \in Big, c \in Nat] ==
    LET d == DivSmallFrom(x, c, Len(x), 0) IN [q |-> Trim[d.q], r |-> d.r]

BitLen[x \in Big] ==
    IF x = <<>> THEN 0
    ELSE DigitBits * (Len(x) - 1)
         + Cardinality({k \in 0..(DigitBits - 1) : 2^k <= x[Len(x)]})

\* x * 2^s and floor(x / 2^s)
ShiftLeft[x \in Big, s \in Nat] ==
    LET high == 2^(DigitBits - (s % DigitBits))
    IN  ShiftDigits[Trim[[i \in 1..(Len(x) + 1) |->
                            (Digit(x, i) % high) * 2^(s % DigitBits)
                            + Digit(x, i - 1) \div high]],
                    s \div DigitBits]

ShiftRight[x \in Big, s \in Nat] ==
    LET a == s \div DigitBits
        low == 2^(s % DigitBits)
    IN  Trim[[i \in 1..(Len(x) - a) |->
                Digit(x, i + a) \div low
                + (Digit(x, i + a + 1) % low) * 2^(DigitBits - (s % DigitBits))]]

\* floor(sqrt(N)) for N below Base^steps, half a digit of the root at a time
\* from the top: r is the root of the leading digits of N, and the next half
\* digit of the root is the largest c with (r * RootRadix + c)^2 within the
\* leading digits, c = upper * RootSplit + lower
RootRadix == 2^(DigitBits \div 2)
RootSplit == 16

SquareWithin[t \in Big, leading \in Big] == ~BigLess[leading, BigMul[t, t]]

SqrtSteps[N \in Big, r \in Big, steps \in Nat] ==
    IF steps = 0 THEN r
    ELSE LET leading == SubSeq(N, steps, Len(N))
             low == MulDigit[r, RootRadix]
             upper == Cardinality({c \in 1..(RootRadix \div RootSplit - 1) :
                         SquareWithin[BigAdd[low, <<c * RootSplit>>], leading]})
             lower == Cardinality({c \in 1..(RootSplit - 1) :
                         SquareWithin[BigAdd[low, <<upper * RootSplit + c>>], leading]})
         IN  SqrtSteps[N, BigAdd[low, <<upper * RootSplit + lower>>], steps - 1]

\* numpy.float64 / Python float: IEEE 754 binary64, for values that are
\* neither negative nor subnormal nor infinite.  A double is m * 2^e with m
\* below 2^MantissaBits (zero: m = <<>>); every operation computes the exact
\* result, or its floor and whether anything was cut off (sticky), and rounds
\* it to MantissaBits significant bits, to nearest, ties to even.
MantissaBits == 53
Double == [m : Big, e : Int]

RoundNearestEven[m \in Big, e \in Int, sticky \in BOOLEAN] ==
    LET s == BitLen[m] - MantissaBits
    IN  IF s <= 0 THEN [m |-> m, e |-> e]
        ELSE LET kept == ShiftRight[m, s]
                 rem == BigSub[m, ShiftLeft[kept, s]]
                 half == ShiftLeft[<<1>>, s - 1]
                 up == \/ BigLess[half, rem]
                       \/ rem = half /\ (sticky \/ kept[1] % 2 = 1)
             IN  [m |-> IF up THEN BigAdd[kept, <<1>>] ELSE kept, e |-> e + s]

FloatOfInt[k \in Nat] == [m |-> FromInt[k], e |-> 0]

MinExponent(a, b) == IF a.e < b.e THEN a.e ELSE b.e

\* The significand of a with the exponent e <= a.e
Aligned[a \in Double, e \in Int] == ShiftLeft[a.m, a.e - e]

FloatLess[a \in Double, b \in Double] ==
    BigLess[Aligned[a, MinExponent(a, b)], Aligned[b, MinExponent(a, b)]]

FloatAdd[a \in Double, b \in Double] ==
    IF a.m = <<>> THEN b
    ELSE IF b.m = <<>> THEN a
    ELSE RoundNearestEven[BigAdd[Aligned[a, MinExponent(a, b)],
                                 Aligned[b, MinExponent(a, b)]],
                          MinExponent(a, b), FALSE]

\* |a - b|
FloatAbsSub[a \in Double, b \in Double] ==
    IF b.m = <<>> THEN a
    ELSE IF a.m = <<>> THEN b
    ELSE LET x == Aligned[a, MinExponent(a, b)]
             y == Aligned[b, MinExponent(a, b)]
         IN  RoundNearestEven[IF BigLess[x, y] THEN BigSub[y, x] ELSE BigSub[x, y],
                              MinExponent(a, b), FALSE]

FloatMul[a \in Double, b \in Double] ==
    RoundNearestEven[BigMul[a.m, b.m], a.e + b.e, FALSE]

\* a / c for an integer c, 0 < c < Base: the significand is shifted to
\* MantissaBits + 2 * DigitBits bits, so that the quotient has more than
\* MantissaBits + 2 bits
FloatDivInt[a \in Double, c \in Nat] ==
    IF a.m = <<>> THEN a
    ELSE LET shift == MantissaBits + DigitBits + DigitBits - BitLen[a.m]
             d == DivSmall[ShiftLeft[a.m, shift], c]
         IN  RoundNearestEven[d.q, a.e - shift, d.r # 0]

\* The significand is shifted to 4 * DigitBits pairs of bits, the exponent
\* staying even, so that the integer root has 4 * DigitBits bits, 3 more than
\* MantissaBits
FloatSqrt[a \in Double] ==
    IF a.m = <<>> THEN a
    ELSE LET full == 8 * DigitBits - BitLen[a.m]
             shift == IF (a.e - full) % 2 = 0 THEN full ELSE full - 1
             N == ShiftLeft[a.m, shift]
             r == SqrtSteps[N, <<>>, 8]
         IN  RoundNearestEven[r, (a.e - shift) \div 2, BigMul[r, r] # N]

\* np.std: the deviations from the mean, squared and added up in the order of
\* the table
RECURSIVE SumSquaredDeviations(_, _, _)
SumSquaredDeviations(degs, mean, i) ==
    IF i = 0 THEN FloatOfInt[0]
    ELSE LET deviation == FloatAbsSub[FloatOfInt[degs[i][2]], mean]
         IN  FloatAdd[SumSquaredDeviations(degs, mean, i - 1),
                      FloatMul[deviation, deviation]]

\* mean_degree + k * std_degree, in doubles: app.py's np.mean and np.std;
\* main.py's sum(...) / len(...) and (sum(...) / len(...)) ** 0.5 round the
\* same way where ** 2 and ** 0.5 round correctly and sum adds from left to
\* right (CPython before 3.12)
Threshold(m, degs) ==
    LET n == Len(degs)
        mean == FloatDivInt[FloatOfInt[SumDegrees(degs, 1)], n]
        std == FloatSqrt[FloatDivInt[SumSquaredDeviations(degs, mean, n), n]]
    IN  FloatAdd[mean, FloatMul[FloatOfInt[DegreeStdMultiplier(m)], std]]

----------------------------------------------------------------------------
\* Mutant: "degree >= threshold" for "degree > threshold"
ExceedsThresholdOrEqual(m, degs, d) ==
    LET n == Len(degs)
        S == SumDegrees(degs, 1)
        Q == SumSquares(degs, 1)
        k == DegreeStdMultiplier(m)
    IN  IF n * d - S >= 0 /\ (n * d - S) * (n * d - S) = k * k * (n * Q - S * S)
        THEN ~FloatLess[FloatOfInt[d], Threshold(m, degs)]
        ELSE /\ n * d - S > 0
             /\ (n * d - S) * (n * d - S) > k * k * (n * Q - S * S)

\* "degree > mean_degree + k * std_degree".  With the population mean S/n and
\* the population deviation sqrt(Q/n - (S/n)^2) = sqrt(n*Q - S*S)/n, S the sum
\* and Q the sum of squares of the n degrees, the test in real numbers is
\*     n*d - S > k * sqrt(n*Q - S*S)
\* Where the two sides differ, their squares are integers that differ, so the
\* degree and the threshold are at least 1/(n * (n*d - S + k*sqrt(n*Q - S*S)))
\* apart, many orders of magnitude more than the rounding errors of the
\* doubles (a few units of 2^-53 of the threshold): the doubles give the
\* verdict of the integers.  Where the two sides are equal, the degree sits
\* on the threshold and the rounding of the doubles decides: there the
\* threshold is computed as the code computes it.
ExceedsThreshold(m, degs, d) ==
    LET n == Len(degs)
        S == SumDegrees(degs, 1)
        Q == SumSquares(degs, 1)
        k == DegreeStdMultiplier(m)
    IN  IF n * d - S >= 0 /\ (n * d - S) * (n * d - S) = k * k * (n * Q - S * S)
        THEN FloatLess[Threshold(m, degs), FloatOfInt[d]]
        ELSE /\ n * d - S > 0
             /\ (n * d - S) * (n * d - S) > k * k * (n * Q - S * S)

RECURSIVE ConcentrationLoop(_, _, _)
ConcentrationLoop(m, degs, i) ==
    IF i > Len(degs) THEN <<>>
    ELSE (IF ExceedsThreshold(m, degs, degs[i][2])
          THEN <<[type |-> "concentracion_contratos",
                  node |-> degs[i][1], degree |-> degs[i][2]]>>
          ELSE <<>>) \o ConcentrationLoop(m, degs, i + 1)

\* "if empresa_degrees: ..." : nothing is computed for an empty dict
ConcentrationPatterns(m, degs) ==
    IF degs = <<>> THEN <<>> ELSE ConcentrationLoop(m, degs, 1)

\* Mutant: the "if empresa_degrees:" guard dropped, so that the mean of an
\* empty table divides by len(empresa_degrees) = 0
ScanBodyUnguarded(m, G, ents, order) ==
    LET cycles == cycle_basis(G, order)
    IN  IF \/ \E i \in 1..Len(cycles) : CycleLookupRaises(m, ents, cycles[i])
           \/ \E i \in 1..Len(G.nodes) : G.nodes[i] \notin DOMAIN ents
           \/ EmpresaDegrees(G, ents, 1) = <<>>
        THEN [raised |-> TRUE, value |-> <<>>, degrees |-> <<>>]
        ELSE LET degs == EmpresaDegrees(G, ents, 1)
             IN  [raised |-> FALSE,
                  value |-> CyclePatterns(m, ents, cycles, 1)
                            \o ConcentrationLoop(m, degs, 1),
                  degrees |-> degs]

\* The body of detect_suspicious_patterns without main.py's try/except
ScanBody(m, G, ents, order) ==
    LET cycles == cycle_basis(G, order)
    IN  IF \/ \E i \in 1..Len(cycles) : CycleLookupRaises(m, ents, cycles[i])
           \/ \E i \in 1..Len(G.nodes) : G.nodes[i] \notin DOMAIN ents
        THEN [raised |-> TRUE, value |-> <<>>, degrees |-> <<>>]
        ELSE LET degs == EmpresaDegrees(G, ents, 1)
             IN  [raised |-> FALSE,
                  value |-> CyclePatterns(m, ents, cycles, 1)
                            \o ConcentrationPatterns(m, degs),
                  degrees |-> degs]

\* main.py catches every exception, logs it and returns []
detect_suspicious_patterns(m, G, ents, order) ==
    LET r == ScanBody(m, G, ents, order)
    IN  IF m = "main" /\ r.raised
        THEN [raised |-> FALSE, value |-> <<>>, degrees |-> <<>>]
        ELSE r

----------------------------------------------------------------------------
(* Inputs *)

Entity(ids, types, bags) ==
    [id : ids, name : {"N"}, type : types, attributes : bags]

Relationship(sources, targets, types, bags) ==
    [source : sources, target : targets, type : types, attributes : bags]

\* Lists of exactly n elements of S
RECURSIVE ListsOfLen(_, _)
ListsOfLen(S, n) ==
    IF n = 0 THEN {<<>>}
    ELSE {Append(l, x) : l \in ListsOfLen(S, n - 1), x \in S}

\* Batches of at most `budget` items, entities from E and relationships from R
BatchesWithin(E, R, budget) ==
    UNION {[entities : ListsOfLen(E, i), relationships : ListsOfLen(R, j)] :
            <<i, j>> \in {p \in (0..budget) \X (0..budget) : p[1] + p[2] <= budget}}

BatchSize(batch) == Len(batch.entities) + Len(batch.relationships)

\* Spec: "otro" is no key of ENTITY_TYPES nor of RELATIONSHIP_TYPES; the
\* attribute keys "name" and "relationship_type" are the ones the calls of
\* add_node and add_edge also pass by keyword.
IngestEntities ==
    Entity({"a"}, {"funcionario", "empresa", "otro"}, {EmptyDict})
    \cup Entity({"a"}, {"funcionario"}, {[cargo |-> "1"], [name |-> "1"]})
    \cup Entity({"b"}, {"empresa"}, {EmptyDict})

IngestRelationships ==
    Relationship({"a"}, {"b"}, {"comercial", "otro"}, {EmptyDict})
    \cup Relationship({"a"}, {"b"}, {"comercial"}, {[relationship_type |-> "1"]})

\* SpecCycles: three entities of any of three types, submitted together, and
\* the relationships of a triangle plus a self-loop, one per batch
CycleTypeTags == {"funcionario", "empresa", "beneficiario"}

CycleEntityBatches ==
    {[entities |-> <<ea, eb, ec>>, relationships |-> <<>>] :
        ea \in Entity({"a"}, CycleTypeTags, {EmptyDict}),
        eb \in Entity({"b"}, CycleTypeTags, {EmptyDict}),
        ec \in Entity({"c"}, CycleTypeTags, {EmptyDict})}

CycleRelationships ==
    Relationship({"a"}, {"b"}, {"comercial"}, {EmptyDict})
    \cup Relationship({"b"}, {"c"}, {"comercial"}, {EmptyDict})
    \cup Relationship({"c"}, {"a"}, {"comercial"}, {EmptyDict})
    \cup Relationship({"b"}, {"b"}, {"comercial"}, {EmptyDict})

CycleRelationshipBatches ==
    {[entities |-> <<>>, relationships |-> <<r>>] : r \in CycleRelationships}

\* SpecChord: a funcionario, an empresa and two beneficiarios, submitted
\* together; the four relationships of the ring a-b-c-d, submitted together
\* in either of two orders, and the relationship b-d across the ring
ChordEntityBatches ==
    {[entities |-> <<ea, eb, ec, ed>>, relationships |-> <<>>] :
        ea \in Entity({"a"}, {"funcionario"}, {EmptyDict}),
        eb \in Entity({"b"}, {"beneficiario"}, {EmptyDict}),
        ec \in Entity({"c"}, {"empresa"}, {EmptyDict}),
        ed \in Entity({"d"}, {"beneficiario"}, {EmptyDict})}

ChordRelationshipBatches ==
    {[entities |-> <<>>, relationships |-> <<ab, bc, cd, da>>] :
        ab \in Relationship({"a"}, {"b"}, {"comercial"}, {EmptyDict}),
        bc \in Relationship({"b"}, {"c"}, {"comercial"}, {EmptyDict}),
        cd \in Relationship({"c"}, {"d"}, {"comercial"}, {EmptyDict}),
        da \in Relationship({"d"}, {"a"}, {"comercial"}, {EmptyDict})}
    \cup
    {[entities |-> <<>>, relationships |-> <<cd, bc, da, ab>>] :
        ab \in Relationship({"a"}, {"b"}, {"comercial"}, {EmptyDict}),
        bc \in Relationship({"b"}, {"c"}, {"comercial"}, {EmptyDict}),
        cd \in Relationship({"c"}, {"d"}, {"comercial"}, {EmptyDict}),
        da \in Relationship({"d"}, {"a"}, {"comercial"}, {EmptyDict})}
    \cup
    {[entities |-> <<>>, relationships |-> <<bd>>] :
        bd \in Relationship({"b"}, {"d"}, {"comercial"}, {EmptyDict})}

----------------------------------------------------------------------------
(* The state machine *)

NoOutcome == [op |-> "__init__", raised |-> FALSE, value |-> <<>>]
NoBatch == [entities |-> <<>>, relationships |-> <<>>]

\* CorruptionNetworkAnalyzer.__init__
Init ==
    /\ module \in {"app", "main"}
    /\ graph = EmptyGraph
    /\ entities = EmptyDict
    /\ relationships = <<>>
    /\ analysis_result = NoBatch
    /\ empresa_degrees = <<>>
    /\ outcome = NoOutcome
    /\ items = 0

\* self._update_graph(batch), as process_document calls it.  An exception
\* leaves in self whatever the loops had done before it.
UpdateGraph(batch) ==
    /\ LET r == UpdateGraphResult(module, graph, entities, relationships, batch)
       IN  /\ graph' = r.graph
           /\ entities' = r.entities
           /\ relationships' = r.relationships
           /\ outcome' = [op |-> "_update_graph", raised |-> r.raised,
                          value |-> <<>>]
    /\ analysis_result' = batch
    /\ empresa_degrees' = <<>>
    /\ items' = items + BatchSize(batch)
    /\ UNCHANGED module

\* detect_suspicious_patterns reading the records with
\* self.entities.setdefault(node, {'type': 'otro'}): a node without a record
\* gets one during the scan
ScanSetdefault ==
    /\ \E order \in RootOrders(graph) :
         LET r == detect_suspicious_patterns(module, graph, entities, order)
         IN  /\ outcome' = [op |-> "detect_suspicious_patterns",
                            raised |-> r.raised, value |-> r.value]
             /\ empresa_degrees' = r.degrees
    /\ entities' = [n \in DOMAIN entities \cup SeqToSet(graph.nodes) |->
                       IF n \in DOMAIN entities
                       THEN entities[n]
                       ELSE [id |-> n, name |-> n, type |-> "otro",
                             attributes |-> EmptyDict]]
    /\ UNCHANGED <<module, graph, relationships, analysis_result, items>>

\* self.detect_suspicious_patterns()
Scan ==
    /\ \E order \in RootOrders(graph) :
         LET r == detect_suspicious_patterns(module, graph, entities, order)
         IN  /\ outcome' = [op |-> "detect_suspicious_patterns",
                            raised |-> r.raised, value |-> r.value]
             /\ empresa_degrees' = r.degrees
    /\ UNCHANGED <<module, graph, entities, relationships, analysis_result, items>>

Next ==
    \/ \E batch \in BatchesWithin(IngestEntities, IngestRelationships,
                                  MaxItems - items) : UpdateGraph(batch)
    \/ Scan

Spec == Init /\ [][Next]_vars

NextCycles ==
    \/ \E batch \in CycleEntityBatches :
         items + BatchSize(batch) <= MaxCycleItems /\ UpdateGraph(batch)
    \/ \E batch \in CycleRelationshipBatches :
         items + BatchSize(batch) <= MaxCycleItems /\ UpdateGraph(batch)
    \/ Scan

SpecCycles == Init /\ [][NextCycles]_vars

NextChord ==
    \/ \E batch \in ChordEntityBatches :
         items + BatchSize(batch) <= MaxChordItems /\ UpdateGraph(batch)
    \/ \E batch \in ChordRelationshipBatches :
         items + BatchSize(batch) <= MaxChordItems /\ UpdateGraph(batch)
    \/ Scan

SpecChord == Init /\ [][NextChord]_vars

----------------------------------------------------------------------------
(* The concentration block on its own: lines "if empresa_degrees: ..." of    *)
(* detect_suspicious_patterns as a function of the degree table.             *)

CompanyName(i) == <<"e1", "e2", "e3", "e4", "e5", "e6", "e7", "e8">>[i]

\* Non-decreasing degree lists of length n with entries in 0..hi (off the
\* threshold the verdict on a company depends on the degrees in the table, not
\* on their order)
RECURSIVE DegreeLists(_, _)
DegreeLists(n, hi) ==
    IF n = 0 THEN {<<>>}
    ELSE UNION {{Append(l, d) : l \in DegreeLists(n - 1, d)} : d \in 0..hi}

DegreeTables ==
    UNION {{[i \in 1..n |-> <<CompanyName(i), l[i]>>] : l \in DegreeLists(n, MaxDegree)} :
            n \in 0..MaxCompanies}

InitDegrees ==
    /\ module \in {"app", "main"}
    /\ graph = EmptyGraph
    /\ entities = EmptyDict
    /\ relationships = <<>>
    /\ analysis_result = NoBatch
    /\ empresa_degrees \in DegreeTables
    /\ outcome = NoOutcome
    /\ items = 0

Concentration ==
    /\ outcome' = [op |-> "concentracion_contratos", raised |-> FALSE,
                   value |-> ConcentrationPatterns(module, empresa_degrees)]
    /\ UNCHANGED <<module, graph, entities, relationships, analysis_result,
                   empresa_degrees, items>>

NextDegrees == Concentration

SpecDegrees == InitDegrees /\ [][NextDegrees]_vars

\* Tables of n companies of one degree, but for the one at position `at`
OutlierTables ==
    {[i \in 1..n |-> <<CompanyName(i), IF i = at THEN outlier ELSE base>>] :
        n \in 1..MaxCompanies, at \in 1..MaxCompanies,
        base \in 0..MaxBaseDegree, outlier \in 0..MaxOutlierDegree}

InitOutlier ==
    /\ module \in {"app", "main"}
    /\ graph = EmptyGraph
    /\ entities = EmptyDict
    /\ relationships = <<>>
    /\ analysis_result = NoBatch
    /\ empresa_degrees \in OutlierTables
    /\ outcome = NoOutcome
    /\ items = 0

SpecOutlier == InitOutlier /\ [][NextDegrees]_vars

----------------------------------------------------------------------------
(* Vocabulary of the claims *)

UpdateReturned == outcome.op = "_update_graph"
ScanReturned == outcome.op = "detect_suspicious_patterns"

\* The step is a call of _update_graph
UpdateStep == outcome'.op = "_update_graph"

SelfUnchanged ==
    /\ graph' = graph
    /\ entities' = entities
    /\ relationships' = relationships

HasUnknownType(batch) ==
    \/ \E i \in 1..Len(batch.entities) :
         batch.entities[i].type \notin DOMAIN ENTITY_TYPES
    \/ \E i \in 1..Len(batch.relationships) :
         batch.relationships[i].type \notin DOMAIN RELATIONSHIP_TYPES

BatchIds(batch) == {batch.entities[i].id : i \in 1..Len(batch.entities)}

\* A relationship of the batch names an id known neither to `ents` nor to the batch
HasDanglingReference(batch, ents) ==
    \E i \in 1..Len(batch.relationships) :
        {batch.relationships[i].source, batch.relationships[i].target}
            \ ((DOMAIN ents) \cup BatchIds(batch)) # {}

\* The last version of each id in the batch
IsLastVersion(batch, i) ==
    \A j \in (i + 1)..Len(batch.entities) :
        batch.entities[j].id # batch.entities[i].id

Occurrences(seq, x) == Cardinality({i \in 1..Len(seq) : seq[i] = x})

----------------------------------------------------------------------------
(* C1: a batch with an unrecognized entity type or an unrecognized          *)
(* relationship type makes _update_graph signal an error and leaves graph,  *)
(* entities and relationships exactly as they were before the call,         *)
(* wherever in the batch the bad item sits.                                 *)
C1_UnknownTypeRejected ==
    [][(UpdateStep /\ HasUnknownType(analysis_result'))
          => (outcome'.raised /\ SelfUnchanged)]_vars

(* C2: a relationship naming an id that is neither in the graph nor in the  *)
(* batch makes _update_graph fail and mutate nothing; so every source and   *)
(* target of every stored relationship and of every edge is the id of a     *)
(* recorded entity, and no node exists without an entity record.            *)
C2_NoDanglingReference ==
    /\ \A i \in 1..Len(relationships) :
         /\ relationships[i].source \in DOMAIN entities
         /\ relationships[i].target \in DOMAIN entities
    /\ \A e \in DOMAIN graph.edge : e \subseteq DOMAIN entities
    /\ SeqToSet(graph.nodes) \subseteq DOMAIN entities
    /\ (UpdateReturned /\ ~outcome.raised)
         => \A i \in 1..Len(analysis_result.relationships) :
              /\ analysis_result.relationships[i].source \in DOMAIN entities
              /\ analysis_result.relationships[i].target \in DOMAIN entities

(* C3: ingesting an id that is already recorded (or that occurs earlier in  *)
(* the same batch) leaves exactly one node for the id, carrying the type    *)
(* and only the attributes of the last version: no attribute key of an      *)
(* earlier version survives on the node; the entities mapping holds one     *)
(* record for the id, the last version.                                     *)
C3_UpsertReplaces ==
    [][(UpdateStep /\ ~outcome'.raised)
          => \A i \in 1..Len(analysis_result'.entities) :
               LET e == analysis_result'.entities[i]
               IN  (/\ IsLastVersion(analysis_result', i)
                    /\ \/ e.id \in DOMAIN entities
                       \/ \E j \in 1..(i - 1) : analysis_result'.entities[j].id = e.id)
                   => /\ Occurrences(graph'.nodes, e.id) = 1
                      /\ graph'.node[e.id].node_type = e.type
                      /\ (DOMAIN graph'.node[e.id]) \ NodeKeywords(module)
                            = DOMAIN e.attributes
                      /\ \A k \in DOMAIN e.attributes :
                            graph'.node[e.id][k] = e.attributes[k]
                      /\ entities'[e.id] = e]_vars

----------------------------------------------------------------------------
(* Vocabulary of the scan claims *)

IsCycleFinding(p) == p.type = "ciclo_sospechoso"
IsConcentrationFinding(p) == p.type = "concentracion_contratos"

CycleFindings == SelectSeq(outcome.value, IsCycleFinding)
ConcentrationFindings == SelectSeq(outcome.value, IsConcentrationFinding)

Members(G) == UNION (DOMAIN G.edge)

RECURSIVE Reach(_, _)
Reach(E, S) ==
    LET T == S \cup UNION {e \in E : e \cap S # {}}
    IN  IF T = S THEN S ELSE Reach(E, T)

\* The edges of G form exactly one simple cycle, of at least 3 nodes
SingleCycle(G) ==
    LET E == DOMAIN G.edge
    IN  /\ Cardinality(Members(G)) >= 3
        /\ \A e \in E : Cardinality(e) = 2
        /\ \A n \in Members(G) : Cardinality({e \in E : n \in e}) = 2
        /\ Reach(E, {CHOOSE n \in Members(G) : TRUE}) = Members(G)

AllRecorded == SeqToSet(graph.nodes) \subseteq DOMAIN entities

HasMemberOfType(G, t) ==
    \E n \in Members(G) : n \in DOMAIN entities /\ entities[n].type = t

MixedSingleCycle ==
    /\ SingleCycle(graph)
    /\ AllRecorded
    /\ HasMemberOfType(graph, "funcionario")
    /\ HasMemberOfType(graph, "empresa")

(* C4 (SpecCycles; the bounds reach n = 3): when the edges form exactly one  *)
(* simple cycle of n >= 3 nodes, every                                      *)
(* node has its entity record and the cycle has both a funcionario and an   *)
(* empresa, detect_suspicious_patterns returns exactly one ciclo_sospechoso *)
(* finding, whose node list holds the n members of the cycle, each once.    *)
C4_SingleCycleReported ==
    (ScanReturned /\ MixedSingleCycle)
        => /\ ~outcome.raised
           /\ Len(CycleFindings) = 1
           /\ SeqToSet(CycleFindings[1].nodes) = Members(graph)
           /\ Len(CycleFindings[1].nodes) = Cardinality(Members(graph))

C4_Witness ==
    /\ ScanReturned
    /\ MixedSingleCycle
    /\ Len(CycleFindings) = 1

(* C5: every ciclo_sospechoso finding a scan returns lists at least         *)
(* min_cycle_length (3) nodes, among them a funcionario and an empresa; so  *)
(* a triangle of three funcionarios and a self-loop yield none.             *)
C5_TypeGatedCycles ==
    ScanReturned
        => \A i \in 1..Len(CycleFindings) :
             LET nodes == CycleFindings[i].nodes
             IN  /\ Len(nodes) >= min_cycle_length
                 /\ \E k \in 1..Len(nodes) : entities[nodes[k]].type = "funcionario"
                 /\ \E k \in 1..Len(nodes) : entities[nodes[k]].type = "empresa"

\* An all-funcionario triangle was scanned and no cycle finding came back
C5_Witness ==
    /\ ScanReturned
    /\ ~outcome.raised
    /\ SingleCycle(graph)
    /\ AllRecorded
    /\ \A n \in Members(graph) : entities[n].type = "funcionario"
    /\ CycleFindings = <<>>

----------------------------------------------------------------------------
ConcentrationReturned == outcome.op = "concentracion_contratos"

TableDegrees == [i \in 1..Len(empresa_degrees) |-> empresa_degrees[i][2]]

FlaggedNodes == {ConcentrationFindings[i].node : i \in 1..Len(ConcentrationFindings)}

(* C6 as claimed: with five companies of degrees [1,1,1,1,10] and the       *)
(* multiplier 2, a concentracion_contratos finding is emitted for the       *)
(* company of degree 10 and for no other.                                   *)
C6_OutlierFlagged ==
    (ConcentrationReturned /\ TableDegrees = <<1, 1, 1, 1, 10>>)
        => FlaggedNodes = {empresa_degrees[5][1]}

(* C6 amended: with five companies of degrees [1,1,1,1,10] and the          *)
(* multiplier 2 the threshold mean + 2 * deviation is 2.8 + 2 * 3.6 = 10,   *)
(* the comparison is strictly greater, and no concentracion_contratos       *)
(* finding is emitted for any of the five, the company of degree 10         *)
(* included.                                                                *)
C6_OutlierAtThresholdNotFlagged ==
    (ConcentrationReturned /\ TableDegrees = <<1, 1, 1, 1, 10>>)
        => outcome.value = <<>>

C6_Witness ==
    /\ ConcentrationReturned
    /\ TableDegrees = <<1, 1, 1, 1, 10>>
    /\ FlaggedNodes = {}

(* C7: when all the companies have the same degree, whatever their number   *)
(* and whatever the degree, no concentracion_contratos finding is emitted.  *)
C7_UniformDegreesNotFlagged ==
    (/\ ConcentrationReturned
     /\ \A i, j \in 1..Len(empresa_degrees) : TableDegrees[i] = TableDegrees[j])
        => ConcentrationFindings = <<>>

C7_Witness ==
    /\ ConcentrationReturned
    /\ TableDegrees = <<5, 5, 5>>
    /\ ConcentrationFindings = <<>>

----------------------------------------------------------------------------
(* C8: in every state a sequence of _update_graph calls reaches, successful *)
(* or failed, detect_suspicious_patterns returns a list and does not raise. *)
C8_ScanNeverRaises == ScanReturned => ~outcome.raised

(* C9: detect_suspicious_patterns on a freshly constructed analyzer (no     *)
(* nodes, no edges, no entities, no relationships) returns the empty list   *)
(* and does not raise.                                                      *)
C9_EmptyGraphScan ==
    (/\ ScanReturned
     /\ graph = EmptyGraph
     /\ entities = EmptyDict
     /\ relationships = <<>>)
        => (~outcome.raised /\ outcome.value = <<>>)

C9_Witness ==
    /\ ScanReturned
    /\ items = 0
    /\ graph.nodes = <<>>
    /\ outcome.value = <<>>

----------------------------------------------------------------------------
\* All types recognized, all references resolvable
ValidBatch(batch, ents) ==
    /\ ~HasUnknownType(batch)
    /\ ~HasDanglingReference(batch, ents)

\* Every entity of the batch is recorded in its last version and every
\* relationship of the batch is appended
AppliedInFull(batch) ==
    /\ \A i \in 1..Len(batch.entities) :
         IsLastVersion(batch, i)
            => /\ batch.entities[i].id \in DOMAIN entities'
               /\ entities'[batch.entities[i].id] = batch.entities[i]
               /\ batch.entities[i].id \in SeqToSet(graph'.nodes)
    /\ relationships' = relationships \o batch.relationships

(* C10: a batch that fails leaves the state as it was (so a valid batch     *)
(* after it gives the state the valid batch alone would give), and a valid  *)
(* batch submitted right after a failed one is applied in full.             *)
C10_FailureNeitherCorruptsNorBlocks ==
    [][UpdateStep
          => /\ outcome'.raised => SelfUnchanged
             /\ (/\ UpdateReturned
                 /\ outcome.raised
                 /\ ValidBatch(analysis_result', entities))
                   => (~outcome'.raised /\ AppliedInFull(analysis_result'))]_vars

----------------------------------------------------------------------------
\* Ends of the stored relationships at node n (a relationship from n to n
\* has two)
IncidentRelationships(n) ==
    Cardinality({i \in 1..Len(relationships) : relationships[i].source = n})
    + Cardinality({i \in 1..Len(relationships) : relationships[i].target = n})

(* C11: relationship facts between the same pair of entities are kept as    *)
(* distinct edges and each counts toward the degree: the graph has as many  *)
(* edges as the relationships list has entries, and the degree of a node    *)
(* (the one the concentration detector reads) is the number of stored       *)
(* relationships that end at it, so k relationships between two distinct    *)
(* entities give each of them degree k.                                     *)
C11_MultiEdgesCounted ==
    /\ Cardinality(DOMAIN graph.edge) = Len(relationships)
    /\ \A n \in SeqToSet(graph.nodes) : degree(graph, n) = IncidentRelationships(n)

----------------------------------------------------------------------------
RelationshipEnds(batch) ==
    UNION {{batch.relationships[i].source, batch.relationships[i].target} :
              i \in 1..Len(batch.relationships)}

\* The relationships of the batch name entities of the batch only, and at
\* least one of them is not recorded in `ents`
ReferencesOwnEntities(batch, ents) ==
    /\ batch.relationships # <<>>
    /\ RelationshipEnds(batch) \subseteq BatchIds(batch)
    /\ RelationshipEnds(batch) \ DOMAIN ents # {}

(* C12: within one call of _update_graph the entities are applied, in batch *)
(* order, before any edge is added, so a batch of recognized types whose    *)
(* relationships name entities found only in the entity list of that same   *)
(* batch is accepted in full: the call does not fail, afterwards all its    *)
(* entities and all its edges are present, and both ends of every edge have *)
(* an entity record.                                                        *)
C12_OwnEntitiesResolve ==
    [][(/\ UpdateStep
        /\ ~HasUnknownType(analysis_result')
        /\ ReferencesOwnEntities(analysis_result', entities))
          => /\ ~outcome'.raised
             /\ AppliedInFull(analysis_result')
             /\ \A i \in 1..Len(analysis_result'.relationships) :
                  LET rel == analysis_result'.relationships[i]
                  IN  /\ {rel.source, rel.target} \in DOMAIN graph'.edge
                      /\ {rel.source, rel.target} \subseteq DOMAIN entities']_vars

----------------------------------------------------------------------------
\* The step is a call of detect_suspicious_patterns
ScanStep == outcome'.op = "detect_suspicious_patterns"

----------------------------------------------------------------------------
\* The edges E form one simple cycle of at least 3 nodes
SimpleCycle(E) ==
    LET members == UNION E
    IN  /\ Cardinality(members) >= 3
        /\ \A e \in E : Cardinality(e) = 2
        /\ \A n \in members : Cardinality({e \in E : n \in e}) = 2
        /\ Reach(E, {CHOOSE n \in members : TRUE}) = members

\* Some edges of the graph form a simple cycle of at least 3 nodes with a
\* funcionario and an empresa among them
HasMixedCycle ==
    \E E \in SUBSET (DOMAIN graph.edge) :
        /\ SimpleCycle(E)
        /\ \E n \in UNION E : n \in DOMAIN entities /\ entities[n].type = "funcionario"
        /\ \E n \in UNION E : n \in DOMAIN entities /\ entities[n].type = "empresa"

(* C14: whenever the graph holds a simple cycle of at least 3 nodes with a  *)
(* funcionario and an empresa among its members (every node having its     *)
(* record), detect_suspicious_patterns returns at least one                 *)
(* ciclo_sospechoso finding, whatever the order in which nodes and edges    *)
(* were added and whatever other edges join members of the cycle.           *)
C14_MixedCycleAlwaysReported ==
    (ScanReturned /\ AllRecorded /\ HasMixedCycle)
        => /\ ~outcome.raised
           /\ CycleFindings # <<>>

----------------------------------------------------------------------------
(* C15: with the multiplier 2, when the table holds at most 5 companies no  *)
(* concentracion_contratos finding is emitted, whatever their degrees (a    *)
(* single company included); a finding takes 6 companies or more.           *)
C15_FewCompaniesNeverFlagged ==
    (ConcentrationReturned /\ Len(empresa_degrees) <= 5)
        => ConcentrationFindings = <<>>

====
